---- MODULE Spec2Model ----
(***************************************************************************)
(* Receipt ingestion-and-verification pipeline of the receipts app.       *)
(*                                                                         *)
(* The repository holds two revisions of actions/db/receipts-actions.ts:   *)
(*   variant "A"  (vendor / imageUrl / status / categoryId):               *)
(*       bulkUploadAction, createReceiptAction(data),                      *)
(*       updateReceiptAction(id, data, userId),                            *)
(*       deleteReceiptAction(id, userId), confirmReceiptAction             *)
(*   variant "B"  (merchant / storagePath / verified / category):          *)
(*       createReceiptAction(file, userId), updateReceiptAction(id, data), *)
(*       deleteReceiptAction(id), verifyAndUpdateReceiptAction,            *)
(*       deleteReceiptWithOwnershipCheckAction                             *)
(* Both export from the same module path, so one deployment runs one of    *)
(* them; `variant` is the revision that is deployed.                       *)
(*                                                                         *)
(* A row of the receipts table is modelled with the column names of        *)
(* variant A; in variant B  merchant = vendor, storagePath = imageUrl,     *)
(* category = categoryId and verified = (status = "verified").             *)
(***************************************************************************)
EXTENDS Integers, Sequences, FiniteSets, TLC

VARIABLES variant, categories, receipts, blobs, now, nextId, nextUuid, proc, ops, uploads, createdBy

vars == <<variant, categories, receipts, blobs, now, nextId, nextUuid, proc, ops, uploads, createdBy>>

-----------------------------------------------------------------------------
(* Bounds of the model *)

MaxOps == 3           \* server actions started in one behaviour
MaxUploads == 2       \* files handed to ingest in one behaviour
MaxPatchFields == 1   \* fields supplied in one partial-update object

-----------------------------------------------------------------------------
(* Values *)

Null == "null"
NoUser == ""
Users == {"u1", "u2"}
Procs == {"p1", "p2"}
\* Requests are served one at a time under Spec.
Serial == {"p1"}
Callers == Users \cup {NoUser}

FileNames == {"a.png"}
\* A valid PNG, a PDF, and a PNG above MAX_FILE_SIZE.
Files == {[name |-> n, type |-> "image/png", big |-> FALSE] : n \in FileNames}
           \cup {[name |-> n, type |-> "application/pdf", big |-> FALSE] : n \in FileNames}
           \cup {[name |-> n, type |-> "image/png", big |-> TRUE] : n \in FileNames}

Vendors == {"Coffee Shop"}
Dates == {"2024-03-01"}
BadDate == "not-a-date"
\* An amount is a decimal value counted in thousandths: <<4500>> is 4.5.
Amounts == {<<4500>>}
NoAmount == <<>>
\* NaN, the number that is no value: told apart from a value by its length.
NaN == <<0, 0>>
IsNaN(a) == Len(a) = 2
Currencies == {"USD", "EUR"}
Categories == {"c1"}
Statuses == {"unverified", "verified"}

RECURSIVE SeqsUpTo(_, _)
SeqsUpTo(S, n) ==
  IF n = 0 THEN {<<>>}
  ELSE LET shorter == SeqsUpTo(S, n - 1)
       IN  shorter \cup {Append(s, x) : s \in {t \in shorter : Len(t) = n - 1}, x \in S}

Batches == SeqsUpTo(Files, MaxUploads)

Idle == [op |-> "idle"]

\* A request takes the first free handler slot.
FirstIdle(p) == proc[p] = Idle /\ (p = "p2" => proc["p1"] # Idle)

\* A server action is invoked.
Begin(p) ==
  /\ FirstIdle(p)
  /\ ops < MaxOps
  /\ ops' = ops + 1

-----------------------------------------------------------------------------
(* Object store *)

\* bulkUploadAction: userId.replace(/[^a-zA-Z0-9-_]/g, "_"); the user ids of
\* the model are alphanumeric, which the expression leaves as they are.
SanitizeUserId(u) ==
  CASE u = "u 1" -> "u_1"
    [] OTHER -> u

\* bulkUploadAction: file.name.replace(/[^a-zA-Z0-9-_.]/g, "_")
SanitizeFileName(n) ==
  CASE n = "a b.png" -> "a_b.png"
    [] OTHER -> n

\* `${sanitizedUserId}/${Date.now()}_${sanitizedFileName}`
BulkPath(u, t, n) == <<SanitizeUserId(u), t, SanitizeFileName(n)>>

\* storage.upload(path, file, { upsert: false }): an existing object at the
\* path is an error; the backend may also fail on its own.
UploadOutcomes(path) == IF path \in blobs THEN {FALSE} ELSE BOOLEAN

\* storage.createSignedUrl(path, ttl): fails when the object is missing.
SignedUrlOutcomes(path) == IF path \in blobs THEN BOOLEAN ELSE {FALSE}

-----------------------------------------------------------------------------
(* Extraction client, variant A (extract-receipt-action.ts) *)

ExtractedReceiptData ==
  { [vendor |-> "Coffee Shop", date |-> "2024-03-01", amount |-> <<4500>>, currency |-> "EUR"],
    [vendor |-> Null, date |-> "2024-03-01", amount |-> NoAmount, currency |-> "USD"],
    [vendor |-> "Coffee Shop", date |-> BadDate, amount |-> <<4500>>, currency |-> "USD"] }

ExtractionFailed == [isSuccess |-> FALSE, message |-> "Failed to extract receipt data"]

\* extractReceiptDataAction: a validated object, or a failure value for a
\* refusal, an unparsable answer or an error of the call.
ExtractionResults ==
  {[isSuccess |-> TRUE, message |-> "Receipt data extracted successfully", data |-> d] :
      d \in ExtractedReceiptData} \cup {ExtractionFailed}

\* new Date(date).toISOString() throws a RangeError on an invalid date.
DateThrows(d) == d = BadDate

-----------------------------------------------------------------------------
(* bulkUploadAction *)

\* The InsertReceipt built from the extraction (steps 3 and 4).
NumericScale0(a) ==
  IF a = NoAmount \/ IsNaN(a) THEN a ELSE <<((a[1] + 500) \div 1000) * 1000>>

\* numeric("amount", { precision: 10, scale: 2 }): the value written is
\* rounded to two decimal places, half away from zero.
NumericScale2(a) ==
  IF a = NoAmount \/ IsNaN(a) THEN a ELSE <<((a[1] + 5) \div 10) * 10>>

NewReceipt(userId, path, extraction) ==
  LET ok == extraction.isSuccess
  IN  [userId |-> userId,
       imageUrl |-> path,
       vendor |-> IF ok THEN extraction.data.vendor ELSE Null,
       date |-> IF ok THEN extraction.data.date ELSE Null,
       amount |-> IF ok THEN NumericScale2(extraction.data.amount) ELSE NoAmount,
       currency |-> IF ok THEN extraction.data.currency ELSE "USD",
       categoryId |-> Null,
       status |-> "unverified"]

\* How the pipeline of one file ended, and the row it inserted (0: none).
Entry(outcome, id) == [outcome |-> outcome, id |-> id]

BulkReturn(s, log) ==
  [op |-> "bulkUpload", pc |-> "done", userId |-> s.userId,
   files |-> s.files, log |-> log,
   result |-> [isSuccess |-> TRUE,
               message |-> "Bulk upload complete.",
               createdReceipts |-> s.createdReceipts]]

\* The loop with `break` in the place of `continue`: a failed file ends the batch.
BulkNextBreaks(s, entry) ==
  LET log == Append(s.log, entry)
  IN  IF s.i < Len(s.files) /\ entry.id # 0
      THEN [s EXCEPT !.log = log, !.i = s.i + 1, !.pc = "upload"]
      ELSE BulkReturn(s, log)

\* End of one iteration of the for loop: the next file, or the return.
\* `entry` records how the iteration of file i ended.
BulkNext(s, entry) ==
  LET s2 == [s EXCEPT !.log = Append(s.log, entry)]
  IN  IF s.i < Len(s.files)
      THEN [s2 EXCEPT !.i = s.i + 1, !.pc = "upload"]
      ELSE BulkReturn(s, s2.log)

\* bulkUploadAction(files, userId): the two guards before the loop.
BulkStart(p, files, userId) ==
  /\ variant = "A"
  /\ Begin(p)
  /\ uploads + Len(files) <= MaxUploads
  /\ uploads' = uploads + Len(files)
  /\ proc' = [proc EXCEPT ![p] =
       IF Len(files) = 0
       THEN [op |-> "bulkUpload", pc |-> "done", userId |-> userId, files |-> files,
             log |-> <<>>,
             result |-> [isSuccess |-> FALSE,
                         message |-> "No files provided for bulk upload."]]
       ELSE IF userId = NoUser
       THEN [op |-> "bulkUpload", pc |-> "done", userId |-> userId, files |-> files,
             log |-> <<>>,
             result |-> [isSuccess |-> FALSE,
                         message |-> "No userId provided. Bulk upload cannot proceed."]]
       ELSE [op |-> "bulkUpload", pc |-> "upload", userId |-> userId, files |-> files,
             i |-> 1, createdReceipts |-> <<>>, log |-> <<>>, path |-> <<>>,
             signedUrl |-> <<>>, extraction |-> ExtractionFailed]]
  /\ UNCHANGED <<variant, categories, receipts, blobs, now, nextId, nextUuid, createdBy>>

\* Date.now(): the millisecond of the previous reading, or a later one
\* (now = 0: the clock has not been read yet).
ClockReadings == IF now = 0 THEN {1} ELSE {now, now + 1}

\* Step 1: upload the file; on an error `continue`.
BulkUpload(p) ==
  /\ proc[p].op = "bulkUpload" /\ proc[p].pc = "upload"
  /\ \E t \in ClockReadings :
       LET s == proc[p]
           path == BulkPath(s.userId, t, s.files[s.i].name)
       IN  /\ now' = t
           /\ \E ok \in UploadOutcomes(path) :
                IF ok
                THEN /\ blobs' = blobs \cup {path}
                     /\ proc' = [proc EXCEPT ![p] =
                          [s EXCEPT !.pc = "signedUrl", !.path = path, !.signedUrl = <<>>]]
                ELSE /\ blobs' = blobs
                     /\ proc' = [proc EXCEPT ![p] = BulkNext(s, Entry("uploadFailed", 0))]
  /\ UNCHANGED <<variant, categories, receipts, nextId, nextUuid, ops, uploads, createdBy>>

BulkSignedUrlUnchecked(p) ==
  /\ proc[p].op = "bulkUpload" /\ proc[p].pc = "signedUrl"
  /\ LET s == proc[p]
     IN  \E ok \in SignedUrlOutcomes(s.path) :
           proc' = [proc EXCEPT ![p] =
             [s EXCEPT !.pc = "extract", !.signedUrl = IF ok THEN <<s.path>> ELSE <<>>]]
  /\ UNCHANGED <<variant, categories, receipts, blobs, now, nextId, nextUuid, ops, uploads, createdBy>>

\* Step 2: the signed URL of the uploaded path; on an error `continue`.
BulkSignedUrl(p) ==
  /\ proc[p].op = "bulkUpload" /\ proc[p].pc = "signedUrl"
  /\ LET s == proc[p]
     IN  \E ok \in SignedUrlOutcomes(s.path) :
           proc' = [proc EXCEPT ![p] =
             IF ok THEN [s EXCEPT !.pc = "extract", !.signedUrl = <<s.path>>]
                   ELSE BulkNext(s, Entry("signedUrlFailed", 0))]
  /\ UNCHANGED <<variant, categories, receipts, blobs, now, nextId, nextUuid, ops, uploads, createdBy>>

\* Step 3: the extraction call returns.
BulkExtract(p) ==
  /\ proc[p].op = "bulkUpload" /\ proc[p].pc = "extract"
  /\ \E x \in ExtractionResults :
       proc' = [proc EXCEPT ![p] = [proc[p] EXCEPT !.pc = "insert", !.extraction = x]]
  /\ UNCHANGED <<variant, categories, receipts, blobs, now, nextId, nextUuid, ops, uploads, createdBy>>

\* createReceiptAction(receiptData): the insert succeeds or throws.
InsertOutcomes == BOOLEAN

\* Step 4: build the InsertReceipt and call createReceiptAction(data); an
\* exception of the conversion is caught by the per-file catch.
BulkInsert(p) ==
  /\ proc[p].op = "bulkUpload" /\ proc[p].pc = "insert"
  /\ LET s == proc[p]
         row == NewReceipt(s.userId, s.path, s.extraction)
     IN  IF DateThrows(row.date)
         THEN /\ proc' = [proc EXCEPT ![p] = BulkNext(s, Entry("threw", 0))]
              /\ UNCHANGED <<receipts, nextId, createdBy>>
         ELSE \E ok \in InsertOutcomes :
                IF ok
                THEN /\ receipts' = (nextId :> row) @@ receipts
                     /\ nextId' = nextId + 1
                     /\ createdBy' = (nextId :> s.userId) @@ createdBy
                     /\ proc' = [proc EXCEPT ![p] =
                          BulkNext([s EXCEPT !.createdReceipts =
                                       Append(s.createdReceipts, [id |-> nextId] @@ row)],
                                   Entry(IF s.extraction.isSuccess
                                         THEN "created" ELSE "createdBlank", nextId))]
                ELSE /\ proc' = [proc EXCEPT ![p] = BulkNext(s, Entry("insertFailed", 0))]
                     /\ UNCHANGED <<receipts, nextId, createdBy>>
  /\ UNCHANGED <<variant, categories, blobs, now, nextUuid, ops, uploads>>

-----------------------------------------------------------------------------
(* Partial<InsertReceipt>: each column is absent (<<>>) or supplied (<<v>>) *)

Absent == <<>>
Columns == {"userId", "imageUrl", "vendor", "date", "amount", "currency",
            "categoryId", "status"}

\* A path that no upload has produced.
ForeignPath == <<"u2", 9, "x.png">>

Opt(S) == {Absent} \cup {<<v>> : v \in S}

Supplied(d) == {k \in Columns : d[k] # Absent}

\* A merchant together with a date that does not parse.
BadDatePatch ==
  [k \in Columns |-> IF k = "vendor" THEN <<"Acme">>
                     ELSE IF k = "date" THEN <<BadDate>> ELSE Absent]

Patches ==
  {d \in [userId : Opt(Users), imageUrl : Opt({ForeignPath}), vendor : Opt({"Acme"}),
          date : Opt({"2024-03-02", BadDate}), amount : Opt({<<19990>>}), currency : Opt({"EUR"}),
          categoryId : Opt(Categories), status : Opt(Statuses)] :
     Cardinality(Supplied(d)) <= MaxPatchFields} \cup {BadDatePatch}

\* db.update(receiptsTable).set(data): the supplied columns are written.
SetColumns(row, d) ==
  [k \in Columns |->
     IF d[k] = Absent THEN row[k]
     ELSE IF k = "amount" THEN NumericScale2(d[k][1]) ELSE d[k][1]]

\* One row at most per uploaded file.
Ids == 1 .. MaxUploads

\* The database performs the statement or throws; set() throws when no
\* value is supplied, and a value that is no date is rejected by the date
\* column.
DbOutcomes(data) ==
  IF Supplied(data) = {} \/ data.date = <<BadDate>> THEN {FALSE} ELSE BOOLEAN

\* categoryId references categoriesTable.id: a value that names no category
\* is rejected by the database.
ForeignKeyHolds(data) ==
  data.categoryId = Absent \/ data.categoryId[1] \in DOMAIN categories

Exists(id) == id \in DOMAIN receipts

\* where(and(eq(id, receiptId), eq(userId, userId)))
OwnedBy(id, userId) == Exists(id) /\ receipts[id].userId = userId

ResultOf(isSuccess, message) == [isSuccess |-> isSuccess, message |-> message]

Escapes(message) == [threw |-> message]

\* The catch block that closes every server action: the error is logged and
\* a failure ActionState is returned in its place.
Caught(message) == ResultOf(FALSE, message)

Done(op, caller, id, data, result) ==
  [op |-> op, pc |-> "done", caller |-> caller, id |-> id, data |-> data,
   result |-> result]

-----------------------------------------------------------------------------
(* Variant A: updateReceiptAction, deleteReceiptAction, confirmReceiptAction *)

\* The filter without eq(receiptsTable.userId, userId).
UpdateMatchesAnyOwner(id, userId) == Exists(id)

\* The row filter of updateReceiptAction(receiptId, data, userId).
UpdateMatchesA(id, userId) == OwnedBy(id, userId)

\* updateReceiptAction(receiptId, data, userId) as one database statement.
UpdateEffectA(op, p, id, data, userId) ==
  \E dbOk \in (IF ForeignKeyHolds(data) THEN DbOutcomes(data) ELSE {FALSE}) :
    IF ~dbOk
    THEN /\ proc' = [proc EXCEPT ![p] =
              Done(op, userId, id, data, Caught("Failed to update receipt."))]
         /\ UNCHANGED receipts
    ELSE IF UpdateMatchesA(id, userId)
    THEN /\ receipts' = [receipts EXCEPT ![id] = SetColumns(receipts[id], data)]
         /\ proc' = [proc EXCEPT ![p] =
              Done(op, userId, id, data, ResultOf(TRUE, "Receipt updated successfully."))]
    ELSE /\ proc' = [proc EXCEPT ![p] =
              Done(op, userId, id, data,
                   ResultOf(FALSE, "Receipt not found or you don't have permission to update it."))]
         /\ UNCHANGED receipts

UpdateReceiptA(p, id, data, userId) ==
  /\ variant = "A"
  /\ Begin(p)
  /\ UpdateEffectA("updateReceipt", p, id, data, userId)
  /\ UNCHANGED <<variant, categories, blobs, now, nextId, nextUuid, uploads, createdBy>>

\* confirmReceiptAction(receiptId, data): auth(), then updateReceiptAction.
ConfirmReceipt(p, id, data, caller) ==
  /\ variant = "A"
  /\ Begin(p)
  /\ IF caller = NoUser
     THEN /\ proc' = [proc EXCEPT ![p] =
               Done("confirmReceipt", caller, id, data,
                    ResultOf(FALSE, "You must be signed in to verify a receipt."))]
          /\ UNCHANGED receipts
     ELSE UpdateEffectA("confirmReceipt", p, id, data, caller)
  /\ UNCHANGED <<variant, categories, blobs, now, nextId, nextUuid, uploads, createdBy>>

\* The row filter of deleteReceiptAction(receiptId, userId).
DeleteMatchesA(id, userId) == OwnedBy(id, userId)

RemoveRow(id) == [k \in DOMAIN receipts \ {id} |-> receipts[k]]

DeleteReceiptA(p, id, userId) ==
  /\ variant = "A"
  /\ Begin(p)
  /\ \E dbOk \in BOOLEAN :
       IF ~dbOk
       THEN /\ proc' = [proc EXCEPT ![p] =
                 Done("deleteReceipt", userId, id, Absent,
                      Caught("Failed to delete receipt."))]
            /\ UNCHANGED receipts
       ELSE IF DeleteMatchesA(id, userId)
       THEN /\ receipts' = RemoveRow(id)
            /\ proc' = [proc EXCEPT ![p] =
                 Done("deleteReceipt", userId, id, Absent,
                      ResultOf(TRUE, "Receipt deleted successfully."))]
       ELSE /\ proc' = [proc EXCEPT ![p] =
                 Done("deleteReceipt", userId, id, Absent,
                      ResultOf(FALSE, "Receipt not found or you don't have permission to delete it."))]
            /\ UNCHANGED receipts
  /\ UNCHANGED <<variant, categories, blobs, now, nextId, nextUuid, uploads, createdBy>>

-----------------------------------------------------------------------------
(* Variant A: categories (categories-actions.ts, categories-schema.ts) *)

\* The receipts table with the foreign key left as it is.
OnDeleteNoAction(c) == receipts

\* category_id ... references categories(id) ON DELETE SET NULL
OnDeleteSetNull(c) ==
  [id \in DOMAIN receipts |->
     IF receipts[id].categoryId = c THEN [receipts[id] EXCEPT !.categoryId = Null]
                                    ELSE receipts[id]]

\* createCategoryAction(categoryData): the insert of a row with a fresh id.
CreateCategory(p, c, userId) ==
  /\ variant = "A"
  /\ Begin(p)
  /\ c \notin DOMAIN categories
  /\ \E dbOk \in BOOLEAN :
       IF dbOk
       THEN /\ categories' = (c :> userId) @@ categories
            /\ proc' = [proc EXCEPT ![p] =
                 Done("createCategory", userId, 0, [category |-> c, referencedBy |-> {}],
                      ResultOf(TRUE, "Category created successfully."))]
       ELSE /\ categories' = categories
            /\ proc' = [proc EXCEPT ![p] =
                 Done("createCategory", userId, 0, [category |-> c, referencedBy |-> {}],
                      Caught("Failed to create category."))]
  /\ UNCHANGED <<variant, receipts, blobs, now, nextId, nextUuid, uploads, createdBy>>

\* deleteCategoryAction(categoryId, userId); referencedBy keeps the receipts
\* that named the category when the statement ran.
DeleteCategory(p, c, userId) ==
  /\ variant = "A"
  /\ Begin(p)
  /\ LET info == [category |-> c,
                  referencedBy |-> {id \in DOMAIN receipts : receipts[id].categoryId = c}]
     IN  \E dbOk \in BOOLEAN :
           IF ~dbOk
           THEN /\ proc' = [proc EXCEPT ![p] =
                     Done("deleteCategory", userId, 0, info,
                          Caught("Failed to delete category."))]
                /\ UNCHANGED <<categories, receipts>>
           ELSE IF c \in DOMAIN categories /\ categories[c] = userId
           THEN /\ categories' = [k \in DOMAIN categories \ {c} |-> categories[k]]
                /\ receipts' = OnDeleteSetNull(c)
                /\ proc' = [proc EXCEPT ![p] =
                     Done("deleteCategory", userId, 0, info,
                          ResultOf(TRUE, "Category deleted successfully."))]
           ELSE /\ proc' = [proc EXCEPT ![p] =
                     Done("deleteCategory", userId, 0, info,
                          ResultOf(FALSE,
                            "Category not found or you don't have permission to delete it."))]
                /\ UNCHANGED <<categories, receipts>>
  /\ UNCHANGED <<variant, blobs, now, nextId, nextUuid, uploads, createdBy>>

-----------------------------------------------------------------------------
(* Variant B: extraction client (extract-receipt-actions.ts) *)

\* { merchant, date, amount }: three strings.
ExtractedReceiptDataB ==
  { [merchant |-> "Coffee Shop", date |-> "2024-03-01", amount |-> "$4.50"],
    [merchant |-> "", date |-> "", amount |-> ""],
    [merchant |-> "Coffee Shop", date |-> BadDate, amount |-> "19.99"] }

\* extractReceiptDataAction(path): the signed URL, then the model's answer.
ExtractionResultsB(path) ==
  {[isSuccess |-> FALSE, message |-> "AI extraction returned null or refused."],
   [isSuccess |-> FALSE, message |-> "Failed to generate signed URL"]}
  \cup (IF path \in blobs
        THEN {[isSuccess |-> TRUE, message |-> "Receipt data extracted successfully",
               data |-> d] : d \in ExtractedReceiptDataB}
        ELSE {})

-----------------------------------------------------------------------------
(* Variant B: storage actions (receipts-storage-actions.ts) *)

ALLOWED_TYPES == {"image/png", "image/jpeg"}

\* uploadReceiptFileStorage(bucket, path, file): size, type, then the upload.
UploadReceiptFileStorage(path, file) ==
  IF file.big
  THEN {[isSuccess |-> FALSE, message |-> "File size exceeds 10MB limit.", stored |-> FALSE]}
  ELSE IF file.type \notin ALLOWED_TYPES
  THEN {[isSuccess |-> FALSE,
         message |-> "Invalid file type. Only PNG and JPEG images are allowed.",
         stored |-> FALSE]}
  ELSE {IF ok THEN [isSuccess |-> TRUE, message |-> "File uploaded successfully.",
                    stored |-> TRUE]
              ELSE [isSuccess |-> FALSE, message |-> "Failed to upload file",
                    stored |-> FALSE] : ok \in UploadOutcomes(path)}

\* deleteReceiptFileStorage(bucket, path): remove([path]) reports an error
\* or not; removing a missing object is no error.
DeleteReceiptFileStorage(path) ==
  {[isSuccess |-> TRUE, message |-> "File deleted successfully"],
   [isSuccess |-> FALSE, message |-> "Failed to delete file"]}

-----------------------------------------------------------------------------
(* Variant B: createReceiptAction(file, userId) *)

Extension(file) == IF file.type = "image/png" THEN "png" ELSE "jpg"

\* `${userId}/${uniqueId}.${extension}`: the object createReceiptAction has
\* stored for the first PNG of u1.
StoredPath == <<"u1", 1, "png">>

\* The return of createReceiptAction, with how the file's pipeline ended.
CreateDone(caller, file, entry, result) ==
  [op |-> "createReceipt", pc |-> "done", caller |-> caller, id |-> entry.id,
   data |-> file, log |-> <<entry>>, result |-> result]

CreateStart(p, file, userId) ==
  /\ variant = "B"
  /\ Begin(p)
  /\ uploads < MaxUploads
  /\ uploads' = uploads + 1
  /\ IF userId = NoUser
     THEN /\ proc' = [proc EXCEPT ![p] =
               CreateDone(userId, file, Entry("rejected", 0),
                          Caught("Missing file or userId"))]
          /\ UNCHANGED nextUuid
     ELSE IF file.type \notin {"image/png", "image/jpeg"}
     THEN /\ proc' = [proc EXCEPT ![p] =
               CreateDone(userId, file, Entry("rejected", 0),
                    Caught("Unsupported file type. Only PNG and JPEG are allowed."))]
          /\ UNCHANGED nextUuid
     ELSE /\ proc' = [proc EXCEPT ![p] =
               [op |-> "createReceipt", pc |-> "upload", caller |-> userId, file |-> file,
                path |-> <<userId, nextUuid, Extension(file)>>,
                extraction |-> ExtractionFailed]]
          /\ nextUuid' = nextUuid + 1
  /\ UNCHANGED <<variant, categories, receipts, blobs, now, nextId, createdBy>>

CreateUpload(p) ==
  /\ proc[p].op = "createReceipt" /\ proc[p].pc = "upload"
  /\ LET s == proc[p]
     IN  \E r \in UploadReceiptFileStorage(s.path, s.file) :
           IF r.isSuccess
           THEN /\ blobs' = blobs \cup {s.path}
                /\ proc' = [proc EXCEPT ![p] = [s EXCEPT !.pc = "extract"]]
           ELSE /\ blobs' = blobs
                /\ proc' = [proc EXCEPT ![p] =
                     CreateDone(s.caller, s.file, Entry("uploadFailed", 0),
                                ResultOf(FALSE, "File upload failed"))]
  /\ UNCHANGED <<variant, categories, receipts, now, nextId, nextUuid, ops, uploads, createdBy>>

CreateExtract(p) ==
  /\ proc[p].op = "createReceipt" /\ proc[p].pc = "extract"
  /\ LET s == proc[p]
     IN  \E x \in ExtractionResultsB(s.path) :
           proc' = [proc EXCEPT ![p] =
             IF x.isSuccess
             THEN [s EXCEPT !.pc = "insert", !.extraction = x]
             ELSE CreateDone(s.caller, s.file, Entry("extractionFailed", 0),
                             ResultOf(FALSE, "AI extraction failed"))]
  /\ UNCHANGED <<variant, categories, receipts, blobs, now, nextId, nextUuid, ops, uploads, createdBy>>

\* The characters of the amount strings.
AmountChars(text) ==
  CASE text = "$4.50" -> <<"$", "4", ".", "5", "0">>
    [] text = "19.99" -> <<"1", "9", ".", "9", "9">>
    [] OTHER -> <<>>

Digits == {"0", "1", "2", "3", "4", "5", "6", "7", "8", "9"}

DigitOf(ch) ==
  CASE ch = "0" -> 0 [] ch = "1" -> 1 [] ch = "2" -> 2 [] ch = "3" -> 3
    [] ch = "4" -> 4 [] ch = "5" -> 5 [] ch = "6" -> 6 [] ch = "7" -> 7
    [] ch = "8" -> 8 [] ch = "9" -> 9

\* amount.replace(/[$,]/g, "")
StripAmount(chars) == SelectSeq(chars, LAMBDA ch : ch \notin {"$", ","})

\* The digits that open the text.
RECURSIVE LeadingDigits(_)
LeadingDigits(chars) ==
  IF chars = <<>> \/ Head(chars) \notin Digits THEN <<>>
  ELSE <<Head(chars)>> \o LeadingDigits(Tail(chars))

RECURSIVE ValueOf(_)
ValueOf(digits) ==
  IF digits = <<>> THEN 0
  ELSE 10 * ValueOf(SubSeq(digits, 1, Len(digits) - 1)) + DigitOf(digits[Len(digits)])

\* parseFloat(text): the longest decimal prefix, in thousandths; NaN when
\* the text opens with no digit.
ParseFloat(chars) ==
  LET whole == LeadingDigits(chars)
      rest == SubSeq(chars, Len(whole) + 1, Len(chars))
      frac == IF rest # <<>> /\ Head(rest) = "." THEN LeadingDigits(Tail(rest)) ELSE <<>>
      three == SubSeq(frac \o <<"0", "0", "0">>, 1, 3)
  IN  IF whole = <<>> /\ frac = <<>> THEN NaN
      ELSE <<1000 * ValueOf(whole) + ValueOf(three)>>

\* cleanAmount: undefined for an empty amount, else the parsed number.
CleanAmount(amount) ==
  IF amount = "" THEN NoAmount ELSE ParseFloat(StripAmount(AmountChars(amount)))

\* insertData of createReceiptAction.
InsertDataB(userId, path, data) ==
  [userId |-> userId,
   imageUrl |-> path,
   vendor |-> data.merchant,
   date |-> IF data.date = "" THEN Null ELSE data.date,
   amount |-> NumericScale2(CleanAmount(data.amount)),
   currency |-> Null,
   categoryId |-> Null,
   status |-> "unverified"]

CreateInsert(p) ==
  /\ proc[p].op = "createReceipt" /\ proc[p].pc = "insert"
  /\ LET s == proc[p]
         row == InsertDataB(s.caller, s.path, s.extraction.data)
     IN  \E ok \in (IF DateThrows(row.date) THEN {FALSE} ELSE InsertOutcomes) :
           IF ok
           THEN /\ receipts' = (nextId :> row) @@ receipts
                /\ nextId' = nextId + 1
                /\ createdBy' = (nextId :> s.caller) @@ createdBy
                /\ proc' = [proc EXCEPT ![p] =
                     CreateDone(s.caller, s.file, Entry("created", nextId),
                          ResultOf(TRUE, "Receipt uploaded and AI-extracted successfully"))]
           ELSE /\ proc' = [proc EXCEPT ![p] =
                     CreateDone(s.caller, s.file, Entry("insertFailed", 0),
                          Caught("An unknown error occurred in createReceiptAction"))]
                /\ UNCHANGED <<receipts, nextId, createdBy>>
  /\ UNCHANGED <<variant, categories, blobs, now, nextUuid, ops, uploads>>

-----------------------------------------------------------------------------
(* Variant B: updateReceiptAction(id, data), deleteReceiptAction(id) *)

\* The row filter of updateReceiptAction(id, data): the id alone.
UpdateMatchesB(id, caller) == Exists(id)

\* updateData of updateReceiptAction: the copied columns; a date is copied
\* when it parses and dropped otherwise.
UpdateDataB(data) ==
  [k \in Columns |->
     IF k = "currency" THEN Absent
     ELSE IF k = "date" /\ data.date = <<BadDate>> THEN Absent
     ELSE data[k]]

UpdateEffectB(op, p, id, data, caller) ==
  \E dbOk \in DbOutcomes(UpdateDataB(data)) :
    IF ~dbOk
    THEN /\ proc' = [proc EXCEPT ![p] =
              Done(op, caller, id, data, Caught("Failed to update receipt"))]
         /\ UNCHANGED receipts
    ELSE IF UpdateMatchesB(id, caller)
    THEN /\ receipts' = [receipts EXCEPT ![id] = SetColumns(receipts[id], UpdateDataB(data))]
         /\ proc' = [proc EXCEPT ![p] =
              Done(op, caller, id, data, ResultOf(TRUE, "Receipt updated successfully"))]
    ELSE /\ proc' = [proc EXCEPT ![p] =
              Done(op, caller, id, data, ResultOf(FALSE, "No receipt found with given ID"))]
         /\ UNCHANGED receipts

\* `caller` is the user whose client invokes the server action.
UpdateReceiptB(p, id, data, caller) ==
  /\ variant = "B"
  /\ Begin(p)
  /\ UpdateEffectB("updateReceipt", p, id, data, caller)
  /\ UNCHANGED <<variant, categories, blobs, now, nextId, nextUuid, uploads, createdBy>>

DeleteMatchesAlways(id, caller) == TRUE

\* The row filter of deleteReceiptAction(id): the id alone.
DeleteMatchesB(id, caller) == Exists(id)

DeleteEffectB(op, p, id, caller, prefix) ==
  \E dbOk \in BOOLEAN :
    IF ~dbOk
    THEN /\ proc' = [proc EXCEPT ![p] =
              Done(op, caller, id, Absent, Caught(prefix \o "Failed to delete receipt"))]
         /\ UNCHANGED receipts
    ELSE IF DeleteMatchesB(id, caller)
    THEN /\ receipts' = RemoveRow(id)
         /\ proc' = [proc EXCEPT ![p] =
              Done(op, caller, id, Absent,
                   ResultOf(TRUE, IF prefix = "" THEN "Receipt deleted successfully"
                                                 ELSE "Receipt fully deleted"))]
    ELSE /\ proc' = [proc EXCEPT ![p] =
              Done(op, caller, id, Absent, ResultOf(FALSE, prefix \o "No receipt found to delete"))]
         /\ UNCHANGED receipts

DeleteReceiptB(p, id, caller) ==
  /\ variant = "B"
  /\ Begin(p)
  /\ DeleteEffectB("deleteReceipt", p, id, caller, "")
  /\ UNCHANGED <<variant, categories, blobs, now, nextId, nextUuid, uploads, createdBy>>

-----------------------------------------------------------------------------
(* Variant B: getReceiptByIdAction, verifyAndUpdateReceiptAction,           *)
(* deleteReceiptWithOwnershipCheckAction                                    *)

\* getReceiptByIdAction(userId, receiptId): the row, or a failure when no
\* row matches or the query throws.
GetReceiptById(userId, id) ==
  {[isSuccess |-> FALSE, message |-> "Failed to retrieve receipt by ID"]}
  \cup (IF OwnedBy(id, userId)
        THEN {[isSuccess |-> TRUE, message |-> "Receipt retrieved successfully",
               data |-> receipts[id]]}
        ELSE {[isSuccess |-> FALSE, message |-> "No matching receipt found"]})

\* The fields verifyAndUpdateReceiptAction accepts.
VerifyData == {d \in Patches : d.userId = Absent /\ d.imageUrl = Absent /\ d.currency = Absent}

\* auth() and the ownership check.
VerifyStart(p, id, data, caller) ==
  /\ variant = "B"
  /\ Begin(p)
  /\ IF caller = NoUser
     THEN proc' = [proc EXCEPT ![p] =
            Done("verifyAndUpdate", caller, id, data, ResultOf(FALSE, "Not authenticated"))]
     ELSE \E check \in GetReceiptById(caller, id) :
            proc' = [proc EXCEPT ![p] =
              IF ~check.isSuccess
              THEN Done("verifyAndUpdate", caller, id, data,
                        ResultOf(FALSE, "Receipt not found or not owned by user"))
              ELSE IF data.date = <<BadDate>>
              THEN Done("verifyAndUpdate", caller, id, data,
                        ResultOf(FALSE, "Invalid date format"))
              ELSE [op |-> "verifyAndUpdate", pc |-> "update", caller |-> caller,
                    id |-> id, data |-> data]]
  /\ UNCHANGED <<variant, categories, receipts, blobs, now, nextId, nextUuid, uploads, createdBy>>

\* The call of updateReceiptAction(data.id, updateData).
VerifyUpdate(p) ==
  /\ proc[p].op = "verifyAndUpdate" /\ proc[p].pc = "update"
  /\ UpdateEffectB("verifyAndUpdate", p, proc[p].id, proc[p].data, proc[p].caller)
  /\ UNCHANGED <<variant, categories, blobs, now, nextId, nextUuid, ops, uploads, createdBy>>

\* auth() and the ownership check.
OwnedDeleteStart(p, id, caller) ==
  /\ variant = "B"
  /\ Begin(p)
  /\ IF caller = NoUser
     THEN proc' = [proc EXCEPT ![p] =
            Done("deleteWithOwnershipCheck", caller, id, Absent,
                 ResultOf(FALSE, "Not authenticated"))]
     ELSE \E check \in GetReceiptById(caller, id) :
            proc' = [proc EXCEPT ![p] =
              IF ~check.isSuccess
              THEN Done("deleteWithOwnershipCheck", caller, id, Absent,
                        ResultOf(FALSE, "Receipt not found or not owned by user"))
              ELSE [op |-> "deleteWithOwnershipCheck", pc |-> "storage", caller |-> caller,
                    id |-> id, storagePath |-> check.data.imageUrl]]
  /\ UNCHANGED <<variant, categories, receipts, blobs, now, nextId, nextUuid, uploads, createdBy>>

\* Step 3 with the row deleted although the storage deletion failed.
OwnedDeleteStorageDropsRow(p) ==
  /\ proc[p].op = "deleteWithOwnershipCheck" /\ proc[p].pc = "storage"
  /\ LET s == proc[p]
     IN  \E r \in DeleteReceiptFileStorage(s.storagePath) :
           IF r.isSuccess
           THEN /\ blobs' = blobs \ {s.storagePath}
                /\ receipts' = receipts
                /\ proc' = [proc EXCEPT ![p] = [s EXCEPT !.pc = "db"]]
           ELSE /\ blobs' = blobs
                /\ receipts' = RemoveRow(s.id)
                /\ proc' = [proc EXCEPT ![p] =
                     Done("deleteWithOwnershipCheck", s.caller, s.id, Absent,
                          ResultOf(FALSE, "Failed to delete file from storage"))]
  /\ UNCHANGED <<variant, categories, now, nextId, nextUuid, ops, uploads, createdBy>>

\* Step 3 with the result of deleteReceiptFileStorage not looked at.
OwnedDeleteStorageIgnoresResult(p) ==
  /\ proc[p].op = "deleteWithOwnershipCheck" /\ proc[p].pc = "storage"
  /\ LET s == proc[p]
     IN  \E r \in DeleteReceiptFileStorage(s.storagePath) :
           /\ blobs' = IF r.isSuccess THEN blobs \ {s.storagePath} ELSE blobs
           /\ proc' = [proc EXCEPT ![p] = [s EXCEPT !.pc = "db"]]
  /\ UNCHANGED <<variant, categories, receipts, now, nextId, nextUuid, ops, uploads, createdBy>>

\* Step 3: delete from storage.
OwnedDeleteStorage(p) ==
  /\ proc[p].op = "deleteWithOwnershipCheck" /\ proc[p].pc = "storage"
  /\ LET s == proc[p]
     IN  \E r \in DeleteReceiptFileStorage(s.storagePath) :
           IF r.isSuccess
           THEN /\ blobs' = blobs \ {s.storagePath}
                /\ proc' = [proc EXCEPT ![p] = [s EXCEPT !.pc = "db"]]
           ELSE /\ blobs' = blobs
                /\ proc' = [proc EXCEPT ![p] =
                     Done("deleteWithOwnershipCheck", s.caller, s.id, Absent,
                          ResultOf(FALSE, "Failed to delete file from storage"))]
  /\ UNCHANGED <<variant, categories, receipts, now, nextId, nextUuid, ops, uploads, createdBy>>

\* Step 4: delete from the database.
OwnedDeleteDb(p) ==
  /\ proc[p].op = "deleteWithOwnershipCheck" /\ proc[p].pc = "db"
  /\ DeleteEffectB("deleteWithOwnershipCheck", p, proc[p].id, proc[p].caller,
                   "Failed to delete receipt record: ")
  /\ UNCHANGED <<variant, categories, blobs, now, nextId, nextUuid, ops, uploads, createdBy>>

-----------------------------------------------------------------------------
(* getReceiptsAction(userId, filters) *)

\* The characters of the texts the list filters meet.
Chars(text) ==
  CASE text = "Coffee Shop" -> <<"C", "o", "f", "f", "e", "e", " ", "S", "h", "o", "p">>
    [] text = "Acme" -> <<"A", "c", "m", "e">>
    [] text = "coffee" -> <<"c", "o", "f", "f", "e", "e">>
    [] text = "c1" -> <<"c", "1">>
    [] text = "c" -> <<"c">>
    [] text = "%" -> <<"%">>
    [] text = " " -> <<" ">>
    [] OTHER -> <<>>

Lower(ch) ==
  CASE ch = "C" -> "c" [] ch = "S" -> "s" [] ch = "A" -> "a" [] OTHER -> ch

\* SQL  text ILIKE pattern : % is any run of characters, _ any one character.
RECURSIVE ILike(_, _)
ILike(text, pattern) ==
  IF pattern = <<>> THEN text = <<>>
  ELSE IF Head(pattern) = "%"
  THEN ILike(text, Tail(pattern)) \/ (text # <<>> /\ ILike(Tail(text), pattern))
  ELSE /\ text # <<>>
       /\ (Head(pattern) = "_" \/ Lower(Head(text)) = Lower(Head(pattern)))
       /\ ILike(Tail(text), Tail(pattern))

\* merchant.trim().length > 0
IsBlank(text) == \A i \in 1 .. Len(Chars(text)) : Chars(text)[i] = " "

\* The day a date text parses to; 0: new Date(text) is an Invalid Date.
DayOf(date) ==
  CASE date = "2024-03-01" -> 1 [] date = "2024-03-02" -> 2 [] OTHER -> 0

ListFilters ==
  [merchant : Opt({"coffee", "%", " "}), categoryId : Opt({"c1", "c"}),
   status : Opt(Statuses), fromDate : Opt({"2024-03-02", BadDate}),
   toDate : Opt({"2024-03-01"})]

\* getReceiptsAction(userId) called without filters.
NoFilters ==
  [merchant |-> Absent, categoryId |-> Absent, status |-> Absent,
   fromDate |-> Absent, toDate |-> Absent]

\* GetReceiptsFilters of variant A: categoryId, status, fromDate, toDate.
ListFiltersA == {f \in ListFilters : f.merchant = Absent /\ f.categoryId # <<"c">>}

\* GetReceiptsFilters of variant B: merchant, category, verified and two Dates.
ListFiltersB == {f \in ListFilters : f.fromDate # <<BadDate>>}

\* The conditions of variant A: a date filter that does not parse is skipped.
ConditionsA(row, userId, f) ==
  /\ row.userId = userId
  /\ f.categoryId # Absent => row.categoryId = f.categoryId[1]
  /\ f.status # Absent => row.status = f.status[1]
  /\ (f.fromDate # Absent /\ DayOf(f.fromDate[1]) # 0) =>
       (row.date # Null /\ DayOf(row.date) >= DayOf(f.fromDate[1]))
  /\ (f.toDate # Absent /\ DayOf(f.toDate[1]) # 0) =>
       (row.date # Null /\ DayOf(row.date) <= DayOf(f.toDate[1]))

\* The conditions of variant B: ILIKE "%" + text + "%" on merchant and category.
ConditionsB(row, userId, f) ==
  /\ row.userId = userId
  /\ (f.merchant # Absent /\ ~IsBlank(f.merchant[1])) =>
       (row.vendor # Null
        /\ ILike(Chars(row.vendor), <<"%">> \o Chars(f.merchant[1]) \o <<"%">>))
  /\ (f.categoryId # Absent /\ ~IsBlank(f.categoryId[1])) =>
       (row.categoryId # Null
        /\ ILike(Chars(row.categoryId), <<"%">> \o Chars(f.categoryId[1]) \o <<"%">>))
  /\ f.status # Absent => row.status = f.status[1]
  /\ f.fromDate # Absent => (row.date # Null /\ DayOf(row.date) >= DayOf(f.fromDate[1]))
  /\ f.toDate # Absent => (row.date # Null /\ DayOf(row.date) <= DayOf(f.toDate[1]))

\* getReceiptsAction(userId, filters): the ids of the rows found, or the
\* failure of the catch.
GetReceipts(p, userId, f) ==
  /\ proc[p] = Idle
  /\ f \in (IF variant = "A" THEN ListFiltersA ELSE ListFiltersB)
  /\ \E dbOk \in BOOLEAN :
       proc' = [proc EXCEPT ![p] =
         Done("getReceipts", userId, 0, f,
              IF dbOk
              THEN [isSuccess |-> TRUE, message |-> "Receipts retrieved successfully",
                    data |-> {id \in DOMAIN receipts :
                                IF variant = "A" THEN ConditionsA(receipts[id], userId, f)
                                                 ELSE ConditionsB(receipts[id], userId, f)}]
              ELSE Caught("Failed to get receipts"))]
  /\ UNCHANGED <<variant, categories, receipts, blobs, now, nextId, nextUuid, ops, uploads, createdBy>>

\* Rows that ingest, update and confirm leave in the table.
ListRows ==
  { [userId |-> "u1", vendor |-> "Coffee Shop", date |-> "2024-03-01",
     categoryId |-> "c1", status |-> "verified"],
    [userId |-> "u1", vendor |-> "Acme", date |-> "2024-03-02",
     categoryId |-> Null, status |-> "unverified"],
    [userId |-> "u2", vendor |-> "Coffee Shop", date |-> "2024-03-02",
     categoryId |-> "c1", status |-> "unverified"],
    [userId |-> "u1", vendor |-> Null, date |-> Null,
     categoryId |-> Null, status |-> "unverified"] }

\* A table of two receipts.
ListTables ==
  {[id \in 1 .. 2 |->
      [imageUrl |-> <<t[id].userId, id, "a.png">>, amount |-> <<4500>>, currency |-> "USD"]
        @@ t[id]] : t \in [1 .. 2 -> ListRows]}

\* The caller has read the result.
Finish(p) ==
  /\ proc[p].op # "idle" /\ proc[p].pc = "done"
  /\ proc' = [proc EXCEPT ![p] = Idle]
  /\ UNCHANGED <<variant, categories, receipts, blobs, now, nextId, nextUuid, ops, uploads, createdBy>>

-----------------------------------------------------------------------------
(* Properties of ingest *)

Returned(p, op) == proc[p].op = op /\ proc[p].pc = "done"

\* A bulkUploadAction call that went through its loop and returned.
BulkReturned(p) == Returned(p, "bulkUpload") /\ proc[p].result.isSuccess

CreatedOutcomes == {"created", "createdBlank"}

\* The FileErrors of a batch result; BulkUploadResult has createdReceipts only.
FileErrors(result) == IF "failures" \in DOMAIN result THEN result.failures ELSE {}

\* The receipts of the result that belong to the i-th file of the batch.
CreatedFor(s, i) ==
  {k \in 1 .. Len(s.result.createdReceipts) :
     s.log[i].id # 0 /\ s.result.createdReceipts[k].id = s.log[i].id}

\* C1: every file of a batch handed to bulkUploadAction with a non-empty
\* userId ends with exactly one outcome in the returned result: one created
\* Receipt (status unverified, imageUrl naming an object of the blob store)
\* or one FileError for that file, never both and never neither.
C1_ExactlyOneOutcome ==
  \A p \in Procs :
    (Returned(p, "bulkUpload") /\ proc[p].userId # NoUser /\ Len(proc[p].files) > 0) =>
      /\ Len(proc[p].log) = Len(proc[p].files)
      /\ \A i \in 1 .. Len(proc[p].files) :
           /\ Cardinality(CreatedFor(proc[p], i))
                + Cardinality({e \in FileErrors(proc[p].result) : e.file = i}) = 1
           /\ \A k \in CreatedFor(proc[p], i) :
                /\ proc[p].result.createdReceipts[k].status = "unverified"
                /\ proc[p].result.createdReceipts[k].imageUrl \in blobs

FailedOutcomes == {"uploadFailed", "signedUrlFailed", "threw", "insertFailed"}

\* C2: when bulkUploadAction returns, every file of the batch has been
\* processed, and every file whose upload, signed URL and insert succeeded
\* has its Receipt in createdReceipts and in the receipts table, whatever
\* happened to the other files of the batch.
C2_SiblingsSurvive ==
  \A p \in Procs :
    (Returned(p, "bulkUpload") /\ proc[p].userId # NoUser /\ Len(proc[p].files) > 0) =>
      /\ proc[p].result.isSuccess
      /\ Len(proc[p].log) = Len(proc[p].files)
      /\ \A i \in 1 .. Len(proc[p].log) :
           proc[p].log[i].outcome \in CreatedOutcomes =>
             /\ Cardinality(CreatedFor(proc[p], i)) = 1
             /\ proc[p].log[i].id \in DOMAIN receipts
             /\ \A k \in CreatedFor(proc[p], i) :
                  proc[p].result.createdReceipts[k].imageUrl
                    = receipts[proc[p].log[i].id].imageUrl

\* A batch whose first file failed and whose second file has its Receipt.
C2_Witness ==
  \E p \in Procs :
    /\ BulkReturned(p)
    /\ Len(proc[p].log) = 2
    /\ proc[p].log[1].outcome \in FailedOutcomes
    /\ proc[p].log[2].outcome \in CreatedOutcomes
    /\ Len(proc[p].result.createdReceipts) = 1

\* C3: a file whose upload succeeded and whose extraction failed still gets
\* a Receipt with vendor, date and amount null, currency "USD" and status
\* unverified, on the batch path and on the single-file path; no pipeline
\* ends because of the extraction failure.
C3_ExtractionDegrades ==
  \A p \in Procs :
    (Returned(p, "bulkUpload") \/ Returned(p, "createReceipt")) =>
      \A i \in 1 .. Len(proc[p].log) :
        /\ proc[p].log[i].outcome # "extractionFailed"
        /\ proc[p].log[i].outcome = "createdBlank" =>
             LET r == receipts[proc[p].log[i].id]
             IN  /\ r.vendor = Null /\ r.date = Null /\ r.amount = NoAmount
                 /\ r.currency = "USD" /\ r.status = "unverified"

-----------------------------------------------------------------------------
(* Properties of confirm, update and delete *)

\* The process p performs, in this step, the first step of a server action.
Invokes(p) == proc[p] = Idle /\ proc'[p] # Idle

\* C4: after a successful confirmReceiptAction or
\* verifyAndUpdateReceiptAction the stored receipt has status verified,
\* whatever fields the caller supplied.
C4_ConfirmForcesVerified ==
  \A p \in Procs :
    ((Returned(p, "confirmReceipt") \/ Returned(p, "verifyAndUpdate"))
       /\ proc[p].result.isSuccess) =>
      /\ Exists(proc[p].id)
      /\ receipts[proc[p].id].status = "verified"

\* C5: an updateReceiptAction or deleteReceiptAction call made by a user
\* neither modifies nor deletes a receipt owned by another user.
C5_OwnerFilter ==
  [][\A p \in Procs :
       (Invokes(p) /\ proc'[p].op \in {"updateReceipt", "deleteReceipt"}) =>
         \A id \in DOMAIN receipts :
           receipts[id].userId # proc'[p].caller =>
             (id \in DOMAIN receipts' /\ receipts'[id] = receipts[id])]_vars

OwnerCheckedOps == {"confirmReceipt", "verifyAndUpdate", "deleteWithOwnershipCheck"}

\* C6: a confirm or an owner-checked delete invoked by an authenticated
\* user on a receipt that another user created fails and leaves the receipts
\* table and the blob store as they were.
C6_ForeignCallerRefused ==
  [][\A p \in Procs :
       (/\ proc'[p] # proc[p]
        /\ proc'[p].op \in OwnerCheckedOps
        /\ proc'[p].caller \in Users
        /\ proc'[p].id \in DOMAIN createdBy
        /\ createdBy[proc'[p].id] # proc'[p].caller) =>
         /\ receipts' = receipts
         /\ blobs' = blobs
         /\ proc'[p].pc = "done"
         /\ ~proc'[p].result.isSuccess]_vars

\* The operations that check the owner, per revision.
OwnerFilteredOps ==
  IF variant = "A" THEN {"updateReceipt", "deleteReceipt", "confirmReceipt"}
                   ELSE {"verifyAndUpdate", "deleteWithOwnershipCheck"}

\* What an owner-filtered operation answers when no row matches, and when the
\* database fails.
Refusals(op) ==
  IF op \in {"updateReceipt", "confirmReceipt"}
  THEN {ResultOf(FALSE, "Receipt not found or you don't have permission to update it."),
        ResultOf(FALSE, "Failed to update receipt.")}
  ELSE IF op = "deleteReceipt"
  THEN {ResultOf(FALSE, "Receipt not found or you don't have permission to delete it."),
        ResultOf(FALSE, "Failed to delete receipt.")}
  ELSE {ResultOf(FALSE, "Receipt not found or not owned by user")}

C8_StorageRefPresent ==
  \A id \in DOMAIN receipts : receipts[id].imageUrl \in blobs

\* C9: a receipt whose status is verified keeps that status for as long as
\* the row exists.
C9_VerifiedIsTerminal ==
  [][\A id \in DOMAIN receipts :
       (receipts[id].status = "verified" /\ id \in DOMAIN receipts') =>
         receipts'[id].status = "verified"]_vars

\* C10: the userId of a receipt is the caller of the ingest that created it,
\* and no update or confirm changes it.
C10_OwnerImmutable ==
  \A id \in DOMAIN receipts : receipts[id].userId = createdBy[id]

\* C11: the imageUrl (storagePath) of a receipt row never changes while the
\* row exists, whatever fields an update or a confirm supplies.
C11_StorageRefImmutable ==
  [][\A id \in DOMAIN receipts :
       id \in DOMAIN receipts' => receipts'[id].imageUrl = receipts[id].imageUrl]_vars

\* The user on whose behalf the server action of process p runs.
CallerOf(s) == IF s.op = "bulkUpload" THEN s.userId ELSE s.caller

\* C12: a mutating server action invoked with no user id (or with no
\* authenticated user) returns a failure at once and changes neither the
\* receipts table nor the blob store.
C12_NoOwnerNoEffect ==
  [][\A p \in Procs :
       (Invokes(p) /\ CallerOf(proc'[p]) = NoUser) =>
         /\ receipts' = receipts
         /\ blobs' = blobs
         /\ proc'[p].pc = "done"
         /\ ~proc'[p].result.isSuccess]_vars

\* MAX_FILE_SIZE and ALLOWED_TYPES of the upload contract.
ValidFile(f) == ~f.big /\ f.type \in ALLOWED_TYPES

\* C13: ingest stores nothing for a file that is not PNG or JPEG or that is
\* above 10 MiB: its pipeline never gets past the upload step and it has no
\* Receipt when the call returns.
C13_InvalidFileRejected ==
  \A p \in Procs :
    /\ (proc[p].op = "bulkUpload" /\ proc[p].pc \in {"signedUrl", "extract", "insert"}) =>
         ValidFile(proc[p].files[proc[p].i])
    /\ (proc[p].op = "createReceipt" /\ proc[p].pc \in {"extract", "insert"}) =>
         ValidFile(proc[p].file)
    /\ Returned(p, "bulkUpload") =>
         \A i \in 1 .. Len(proc[p].log) :
           ~ValidFile(proc[p].files[i]) => proc[p].log[i].outcome \notin CreatedOutcomes
    /\ Returned(p, "createReceipt") =>
         (~ValidFile(proc[p].data) => proc[p].log[1].outcome \notin CreatedOutcomes)

OwnedDelete == "deleteWithOwnershipCheck"

\* C14: in deleteReceiptWithOwnershipCheckAction the row is removed only
\* after the storage deletion has succeeded, a failed storage deletion ends
\* the call with a failure, and the call returns success only from the
\* database step, with the object gone and the row removed in that step.
C14_StorageBeforeRecord ==
  [][\A p \in Procs :
       (proc[p].op = OwnedDelete /\ proc'[p] # proc[p]) =>
         /\ proc[p].pc = "storage" =>
              /\ receipts' = receipts
              /\ \/ proc'[p].op = OwnedDelete /\ proc'[p].pc = "db"
                    /\ proc[p].storagePath \notin blobs'
                 \/ proc'[p].op = OwnedDelete /\ proc'[p].pc = "done"
                    /\ ~proc'[p].result.isSuccess
         /\ receipts' # receipts =>
              proc[p].pc = "db" /\ proc[p].storagePath \notin blobs
         /\ (proc'[p].op = OwnedDelete /\ proc'[p].pc = "done"
               /\ proc'[p].result.isSuccess) =>
              /\ proc[p].pc = "db"
              /\ proc[p].storagePath \notin blobs'
              /\ Exists(proc[p].id) /\ proc[p].id \notin DOMAIN receipts']_vars

\* An owner-checked delete has returned success.
C14_Witness ==
  \E p \in Procs :
    /\ Returned(p, OwnedDelete)
    /\ proc[p].result.isSuccess
    /\ proc[p].id \in DOMAIN createdBy /\ ~Exists(proc[p].id)

\* Outcomes of a file whose upload failed or whose insert failed.
NotStoredOrNotInserted == {"rejected", "uploadFailed", "insertFailed"}

\* C15: when ingest returns, every file whose upload succeeded and whose
\* insert did not fail has exactly one Receipt: no file ends its pipeline
\* between the upload and the insert.
C15_OneReceiptPerUpload ==
  \A p \in Procs :
    (Returned(p, "bulkUpload") \/ Returned(p, "createReceipt")) =>
      \A i \in 1 .. Len(proc[p].log) :
        \/ proc[p].log[i].outcome \in NotStoredOrNotInserted
        \/ /\ proc[p].log[i].outcome \in CreatedOutcomes
           /\ proc[p].log[i].id \in DOMAIN receipts

\* The steps that wait for the blob store or the database only.
StoreSteps ==
  \E p \in Serial :
    \/ BulkUpload(p) \/ BulkSignedUrl(p) \/ BulkInsert(p)
    \/ CreateUpload(p) \/ CreateInsert(p)
    \/ VerifyUpdate(p) \/ OwnedDeleteStorage(p) \/ OwnedDeleteDb(p)

\* C16: with the blob store and the database always answering, every
\* bulkUploadAction call eventually returns, also when the AI service never
\* answers the extraction call.
C16_IngestReturns ==
  \A p \in Procs : (proc[p].op = "bulkUpload") ~> Returned(p, "bulkUpload")

\* The fields of ExtractedFields, under either name of the merchant.
ContractFields ==
  {{"vendor", "date", "amount", "currency"}, {"merchant", "date", "amount", "currency"}}

\* C17: what the extraction client hands to its caller is a success whose
\* data has merchant, date, amount and currency, or a failure without data.
C17_ExtractionTyped ==
  \A p \in Procs :
    "extraction" \in DOMAIN proc[p] =>
      LET x == proc[p].extraction
      IN  IF x.isSuccess
          THEN "data" \in DOMAIN x /\ DOMAIN x.data \in ContractFields
          ELSE "data" \notin DOMAIN x

\* The columns a client can edit in the deployed revision.
EditableColumns == IF variant = "A" THEN Columns ELSE Columns \ {"currency"}

\* C18: a successful update or confirm leaves each supplied field with the
\* supplied value and every other field with the value it had before.
C18_PartialUpdate ==
  [][\A p \in Procs :
       (/\ proc'[p] # proc[p]
        /\ proc'[p].op \in {"updateReceipt", "confirmReceipt", "verifyAndUpdate"}
        /\ proc'[p].pc = "done"
        /\ proc'[p].result.isSuccess) =>
         /\ proc'[p].id \in DOMAIN receipts /\ proc'[p].id \in DOMAIN receipts'
         /\ \A k \in EditableColumns :
              receipts'[proc'[p].id][k] =
                IF proc'[p].data[k] # Absent THEN proc'[p].data[k][1]
                                             ELSE receipts[proc'[p].id][k]]_vars

\* The text contains the part, letter case aside.
Contains(text, part) ==
  \E i \in 0 .. Len(text) - Len(part) :
    \A j \in 1 .. Len(part) : Lower(text[i + j]) = Lower(part[j])

\* The row satisfies every filter that is supplied.
Satisfies(row, f) ==
  /\ f.merchant # Absent =>
       (row.vendor # Null /\ Contains(Chars(row.vendor), Chars(f.merchant[1])))
  /\ f.categoryId # Absent => row.categoryId = f.categoryId[1]
  /\ f.status # Absent => row.status = f.status[1]
  /\ f.fromDate # Absent =>
       (row.date # Null /\ DayOf(f.fromDate[1]) # 0 /\ DayOf(row.date) >= DayOf(f.fromDate[1]))
  /\ f.toDate # Absent =>
       (row.date # Null /\ DayOf(f.toDate[1]) # 0 /\ DayOf(row.date) <= DayOf(f.toDate[1]))

\* C19: a successful getReceiptsAction(userId, filters) returns exactly the
\* receipts of userId that satisfy every supplied filter.
C19_ListExact ==
  \A p \in Procs :
    (Returned(p, "getReceipts") /\ proc[p].result.isSuccess) =>
      proc[p].result.data =
        {id \in DOMAIN receipts :
           receipts[id].userId = proc[p].caller /\ Satisfies(receipts[id], proc[p].data)}

\* C20: in the schema with the Category entity, every receipt's categoryId
\* is null or names an existing category, and a successful
\* deleteCategoryAction deletes no receipt: the receipts that referenced the
\* category keep every other field and have the link cleared.
C20_CategoryDeleteClearsLink ==
  [][/\ variant = "A" =>
          \A id \in DOMAIN receipts' :
            receipts'[id].categoryId = Null \/ receipts'[id].categoryId \in DOMAIN categories'
     /\ \A p \in Procs :
          (Invokes(p) /\ proc'[p].op = "deleteCategory" /\ proc'[p].result.isSuccess) =>
            /\ proc'[p].data.category \notin DOMAIN categories'
            /\ DOMAIN receipts' = DOMAIN receipts
            /\ \A id \in DOMAIN receipts :
                 receipts'[id] =
                   IF id \in proc'[p].data.referencedBy
                   THEN [receipts[id] EXCEPT !.categoryId = Null]
                   ELSE receipts[id]]_vars

\* A category that a receipt referenced has been deleted.
C20_Witness ==
  \E p \in Procs :
    /\ Returned(p, "deleteCategory") /\ proc[p].result.isSuccess
    /\ proc[p].data.referencedBy # {}
    /\ \A id \in proc[p].data.referencedBy :
         Exists(id) /\ receipts[id].categoryId = Null

UpdateOps == {"updateReceipt", "confirmReceipt", "verifyAndUpdate"}

C22_UnparseableRefused ==
  [][\A p \in Procs :
       (/\ proc'[p] # proc[p] /\ proc'[p] # Idle
        /\ proc'[p].pc = "done" /\ proc'[p].op \in UpdateOps
        /\ proc'[p].data.date = <<BadDate>>)
       => (~proc'[p].result.isSuccess /\ receipts' = receipts)]_vars

\* The decimal value an extracted amount denotes, in thousandths.
AmountValue(amount) ==
  CASE amount = "$4.50" -> <<4500>>
    [] amount = "19.99" -> <<19990>>
    [] amount = "" -> NoAmount

\* C23: when upload, extraction and insert of a file all succeed, the row
\* inserted carries the extracted merchant, date, amount and currency, has
\* status unverified, the caller as owner and the uploaded path as storage
\* reference.
C23_ReceiptCarriesExtraction ==
  [][\A p \in Procs :
       (/\ proc[p] # Idle /\ proc[p].pc = "insert"
        /\ proc[p].extraction.isSuccess
        /\ nextId' = nextId + 1)
       => LET s == proc[p]
              x == s.extraction.data
              r == receipts'[nextId]
          IN  /\ r.status = "unverified"
              /\ r.userId = (IF s.op = "bulkUpload" THEN s.userId ELSE s.caller)
              /\ r.imageUrl = s.path
              /\ r.vendor = (IF s.op = "bulkUpload" THEN x.vendor ELSE x.merchant)
              /\ r.date = (IF x.date = "" THEN Null ELSE x.date)
              /\ r.amount = (IF s.op = "bulkUpload" THEN x.amount ELSE AmountValue(x.amount))
              /\ "currency" \in DOMAIN x /\ r.currency = x.currency]_vars

\* The amount has at most two decimal places.
WholeCents(a) == a # NoAmount /\ ~IsNaN(a) /\ a[1] % 10 = 0

\* What getReceiptByIdAction returns to the owner for the amount of row id.
ReadBack(id) ==
  {res.data.amount : res \in {g \in GetReceiptById(receipts[id].userId, id) : g.isSuccess}}

\* C24: amount round trip. A receipt created or updated with an amount of at
\* most two decimal places holds that very amount, and reading the receipt
\* back returns it unchanged.
C24_AmountRoundTrip ==
  [][\A p \in Procs :
       /\ (/\ proc[p] # Idle /\ proc[p].pc = "insert"
           /\ proc[p].extraction.isSuccess
           /\ nextId' = nextId + 1)
          => LET x == proc[p].extraction.data
                 written == IF proc[p].op = "bulkUpload" THEN x.amount
                            ELSE AmountValue(x.amount)
             IN  WholeCents(written) =>
                   \A id \in Ids : id = nextId => ReadBack(id)' = {written}
       /\ (/\ proc'[p] # proc[p] /\ proc'[p] # Idle
           /\ proc'[p].pc = "done" /\ proc'[p].op \in UpdateOps
           /\ proc'[p].result.isSuccess
           /\ proc'[p].data.amount # Absent)
          => (WholeCents(proc'[p].data.amount[1]) =>
                \A id \in Ids :
                  id = proc'[p].id => ReadBack(id)' = {proc'[p].data.amount[1]})]_vars

\* A receipt created with 4.5 has been updated with 19.99 and holds 19.99.
C24_Witness ==
  \E p \in Procs :
    /\ proc[p] # Idle /\ proc[p].pc = "done" /\ proc[p].op \in UpdateOps
    /\ proc[p].result.isSuccess
    /\ proc[p].data.amount = <<<<19990>>>>
    /\ ReadBack(proc[p].id) = {<<19990>>}

IngestOps == {"bulkUpload", "createReceipt"}

\* C25: within the pipeline of one file the stages run in order. The signed
\* URL is asked for only after the upload has stored the object, extraction
\* starts only once the object is stored and (batch path) its signed URL has
\* been issued, and the insert is made only after extraction has returned.
C25_StagesInOrder ==
  [][\A p \in Procs :
       (proc'[p] # proc[p] /\ proc'[p] # Idle /\ proc'[p].op \in IngestOps) =>
         /\ proc'[p].pc = "signedUrl" =>
              (proc[p] # Idle /\ proc[p].pc = "upload" /\ proc'[p].path \in blobs')
         /\ proc'[p].pc = "extract" =>
              /\ proc[p] # Idle
              /\ proc'[p].path \in blobs'
              /\ IF proc'[p].op = "bulkUpload"
                 THEN proc[p].pc = "signedUrl" /\ proc'[p].signedUrl = <<proc'[p].path>>
                 ELSE proc[p].pc = "upload"
         /\ proc'[p].pc = "insert" => (proc[p] # Idle /\ proc[p].pc = "extract")
         /\ nextId' # nextId => (proc[p] # Idle /\ proc[p].pc = "insert")]_vars

\* The batch path is about to insert: the object is stored, its signed URL
\* was issued and extraction has returned values.
C25_Witness ==
  \E p \in Procs :
    /\ proc[p].op = "bulkUpload" /\ proc[p].pc = "insert"
    /\ proc[p].path \in blobs
    /\ proc[p].signedUrl = <<proc[p].path>>
    /\ proc[p].extraction.isSuccess

\* C26: when the insert fails for a file whose upload succeeded, the batch
\* does not roll back and reports the file. The object stays in the blob
\* store, no receipt references it, the next file is processed, and the
\* returned result holds a FileError of stage persist for the file.
C26_PersistFailureRecorded ==
  [][\A p \in Procs :
       (/\ proc[p] # Idle /\ proc[p].op = "bulkUpload" /\ proc[p].pc = "insert"
        /\ proc'[p].log = Append(proc[p].log, Entry("insertFailed", 0)))
       => /\ proc[p].path \in blobs'
          /\ \A id \in DOMAIN receipts' : receipts'[id].imageUrl # proc[p].path
          /\ IF proc[p].i < Len(proc[p].files)
             THEN proc'[p].pc = "upload" /\ proc'[p].i = proc[p].i + 1
             ELSE proc'[p].pc = "done"
          /\ proc'[p].pc = "done" =>
               \A i \in 1 .. Len(proc'[p].log) :
                 proc'[p].log[i].outcome = "insertFailed" =>
                   \E e \in FileErrors(proc'[p].result) :
                     e.file = i /\ e.stage = "persist"]_vars

\* C27: storage paths never collide. Whenever ingest uploads a file, in the
\* same batch as another or in a batch served at the same time, for the same
\* owner or another, the path it has built is not the path of a stored
\* object, so no valid file fails because its path is taken.
C27_PathsDistinct ==
  [][\A p \in Procs :
       (/\ proc[p] # Idle /\ proc[p].op \in IngestOps /\ proc[p].pc = "upload"
        /\ proc'[p] # proc[p])
       => LET s == proc[p]
              path == IF s.op = "bulkUpload"
                      THEN BulkPath(s.userId, now', s.files[s.i].name)
                      ELSE s.path
          IN  path \notin blobs]_vars

\* C28: when the storage deletion fails in
\* deleteReceiptWithOwnershipCheckAction the call returns a failure at once;
\* the row deletion is not attempted and the receipt is still in the table
\* with every field as it was, its object still stored.
C28_StorageFailureKeepsRow ==
  [][\A p \in Procs :
       (/\ proc[p].op = OwnedDelete /\ proc[p].pc = "storage"
        /\ proc'[p] # proc[p]
        /\ proc[p].storagePath \in blobs')
       => /\ proc'[p].op = OwnedDelete /\ proc'[p].pc = "done"
          /\ ~proc'[p].result.isSuccess
          /\ proc'[p].result.message = "Failed to delete file from storage"
          /\ Exists(proc[p].id)
          /\ proc[p].id \in DOMAIN receipts'
          /\ receipts'[proc[p].id] = receipts[proc[p].id]
          /\ receipts' = receipts]_vars

\* The storage deletion has failed: the call has returned the failure, the
\* row and its object are still there.
C28_Witness ==
  \E p \in Procs :
    /\ Returned(p, OwnedDelete)
    /\ proc[p].result.message = "Failed to delete file from storage"
    /\ Exists(proc[p].id)
    /\ receipts[proc[p].id].imageUrl \in blobs

\* The call ended with neither store reporting a failure: it deleted the
\* row, or it found the row already deleted.
NoStoreFailure(result) ==
  \/ result.isSuccess
  \/ result.message = "Failed to delete receipt record: No receipt found to delete"

\* C29: two deleteReceiptWithOwnershipCheckAction requests for the same
\* receipt, interleaved at any await point: at most one of them returns
\* success, and once both have returned without a store failure neither the
\* row nor its object remains.
C29_ConcurrentDeletes ==
  \A p, q \in Procs :
    (/\ p # q
     /\ Returned(p, OwnedDelete) /\ Returned(q, OwnedDelete)
     /\ proc[p].id = proc[q].id /\ proc[p].caller = proc[q].caller)
    => /\ ~(proc[p].result.isSuccess /\ proc[q].result.isSuccess)
       /\ (NoStoreFailure(proc[p].result) /\ NoStoreFailure(proc[q].result)) =>
            /\ ~Exists(proc[p].id)
            /\ proc[p].id = 1 => StoredPath \notin blobs

\* Both requests passed the ownership check before either deleted the row:
\* one has deleted it, the other has found nothing to delete.
C29_Witness ==
  \E p, q \in Procs :
    /\ Returned(p, OwnedDelete) /\ Returned(q, OwnedDelete)
    /\ proc[p].id = 1 /\ proc[q].id = 1
    /\ proc[p].result.isSuccess
    /\ proc[q].result.message = "Failed to delete receipt record: No receipt found to delete"
    /\ ~Exists(1) /\ StoredPath \notin blobs

\* C30: under the schema with category references, a receipt whose
\* categoryId is not null references a category that exists and that the
\* owner of the receipt owns; no update or confirm links a receipt to the
\* category of another user.
C30_CategoryOfSameOwner ==
  variant = "A" =>
    \A id \in DOMAIN receipts :
      receipts[id].categoryId # Null =>
        /\ receipts[id].categoryId \in DOMAIN categories
        /\ categories[receipts[id].categoryId] = receipts[id].userId

-----------------------------------------------------------------------------

\* The tables are empty but for one category, which u1 has created.
Init ==
  /\ variant \in {"A", "B"}
  /\ categories = ("c1" :> "u1")
  /\ receipts = <<>>
  /\ blobs = {}
  /\ now = 0
  /\ nextId = 1
  /\ nextUuid = 1
  /\ proc = [p \in Procs |-> Idle]
  /\ ops = 0
  /\ uploads = 0
  /\ createdBy = <<>>

Next ==
  \/ \E p \in Serial, files \in Batches, u \in Callers : BulkStart(p, files, u)
  \/ \E p \in Serial : BulkUpload(p)
  \/ \E p \in Serial : BulkSignedUrl(p)
  \/ \E p \in Serial : BulkExtract(p)
  \/ \E p \in Serial : BulkInsert(p)
  \/ \E p \in Serial, id \in Ids, d \in Patches, u \in Callers : UpdateReceiptA(p, id, d, u)
  \/ \E p \in Serial, id \in Ids, d \in Patches, u \in Callers : ConfirmReceipt(p, id, d, u)
  \/ \E p \in Serial, id \in Ids, u \in Callers : DeleteReceiptA(p, id, u)
  \/ \E p \in Serial, c \in Categories, u \in Users : CreateCategory(p, c, u)
  \/ \E p \in Serial, c \in Categories, u \in Users : DeleteCategory(p, c, u)
  \/ \E p \in Serial, f \in Files, u \in Callers : CreateStart(p, f, u)
  \/ \E p \in Serial : CreateUpload(p)
  \/ \E p \in Serial : CreateExtract(p)
  \/ \E p \in Serial : CreateInsert(p)
  \/ \E p \in Serial, id \in Ids, d \in Patches, u \in Callers : UpdateReceiptB(p, id, d, u)
  \/ \E p \in Serial, id \in Ids, u \in Callers : DeleteReceiptB(p, id, u)
  \/ \E p \in Serial, id \in Ids, d \in VerifyData, u \in Callers : VerifyStart(p, id, d, u)
  \/ \E p \in Serial : VerifyUpdate(p)
  \/ \E p \in Serial, id \in Ids, u \in Callers : OwnedDeleteStart(p, id, u)
  \/ \E p \in Serial : OwnedDeleteStorage(p)
  \/ \E p \in Serial : OwnedDeleteDb(p)
  \/ \E p \in Serial, u \in Users : GetReceipts(p, u, NoFilters)
  \/ \E p \in Serial : Finish(p)

Spec == Init /\ [][Next]_vars

\* The blob store and the database always answer; the AI service may not.
SpecStoresAnswer == Spec /\ WF_vars(StoreSteps)

\* The list query over the tables of two receipts.
InitList ==
  /\ variant \in {"A", "B"}
  /\ categories = ("c1" :> "u1")
  /\ receipts \in ListTables
  /\ blobs = {receipts[id].imageUrl : id \in 1 .. 2}
  /\ now = 2
  /\ nextId = 3
  /\ nextUuid = 3
  /\ proc = [p \in Procs |-> Idle]
  /\ ops = 0
  /\ uploads = 2
  /\ createdBy = [id \in 1 .. 2 |-> receipts[id].userId]

NextList ==
  \/ \E p \in Serial, u \in Callers, f \in ListFilters : GetReceipts(p, u, f)
  \/ \E p \in Serial : Finish(p)

SpecList == InitList /\ [][NextList]_vars

\* Two requests are served at once. Variant A starts with empty tables;
\* variant B with one unverified receipt of u1 and its object.
InitConcurrent ==
  /\ variant \in {"A", "B"}
  /\ categories = ("c1" :> "u1")
  /\ receipts = IF variant = "A" THEN <<>>
                ELSE <<InsertDataB("u1", StoredPath,
                                   [merchant |-> "Coffee Shop", date |-> "2024-03-01",
                                    amount |-> "$4.50"])>>
  /\ blobs = IF variant = "A" THEN {} ELSE {StoredPath}
  /\ now = 0
  /\ nextId = IF variant = "A" THEN 1 ELSE 2
  /\ nextUuid = IF variant = "A" THEN 1 ELSE 2
  /\ proc = [p \in Procs |-> Idle]
  /\ ops = 0
  /\ uploads = IF variant = "A" THEN 0 ELSE 1
  /\ createdBy = IF variant = "A" THEN <<>> ELSE <<"u1">>

NextConcurrent ==
  \/ \E p \in Procs, files \in Batches, u \in Users : BulkStart(p, files, u)
  \/ \E p \in Procs : BulkUpload(p)
  \/ \E p \in Procs : BulkSignedUrl(p)
  \/ \E p \in Procs : BulkExtract(p)
  \/ \E p \in Procs : BulkInsert(p)
  \/ \E p \in Procs, id \in Ids, u \in Users : OwnedDeleteStart(p, id, u)
  \/ \E p \in Procs : OwnedDeleteStorage(p)
  \/ \E p \in Procs : OwnedDeleteDb(p)
  \/ \E p \in Procs : Finish(p)

SpecConcurrent == InitConcurrent /\ [][NextConcurrent]_vars

====
